---- MODULE Spec2Model ----
(***************************************************************************)
(* Model of the NNUE layer AffineTransform                                 *)
(* (src/src/nnue/layers/affine_transform.h): the layer chain's buffer and  *)
(* hash accounting, ReadParameters, and every Propagate kernel selected by *)
(* the USE_* build macros.                                                 *)
(*                                                                         *)
(* Arrays are functions over 0-based indices, as in the source.  A vector  *)
(* register is a function from 0-based lane numbers to the lane values:    *)
(* bytes of the input are unsigned (0..255), bytes of the weights are      *)
(* signed (-128..127), 32-bit lanes are signed and wrap.                   *)
(***************************************************************************)
EXTENDS Integers, Sequences, FiniteSets, TLC

VARIABLES
    kernel,      \* the build: which USE_* branch of Propagate is compiled
    assertsOn,   \* the build: assert is compiled in (NDEBUG is not defined)
    inDim,       \* kOutputDimensions of the layer below the first AffineTransform
    outDims,     \* OutputDimensions of the AffineTransform layers, innermost first
    biases,      \* biases_ of every AffineTransform of the chain
    weights,     \* weights_ of every AffineTransform of the chain
    input,       \* per call: what previous_layer_.Propagate returned
    buffer,      \* per buffer: the output slots of the outermost layer's region
    written,     \* per call: the <<buffer, slot>> pairs it has stored to so far
    pc,          \* per call: "idle", "loop", "done" or "aborted"
    iter,        \* per call: position of the loop over the outputs
    stream,      \* the bytes of the std::istream given to ReadParameters
    streamPos,   \* its read position (0-based)
    streamFail,  \* its failbit: stream.fail()
    source,      \* the parameters the writer of the stream serialized
    baseOk,      \* what ReadParameters of the layer below the chain returns
    loadPc,      \* "idle" before ReadParameters, "loaded" after it returned
    loadRet,     \* per layer 0..Top: what its ReadParameters returned, and where
    readLog,     \* the reads made on the stream, in order: <<layer, block>>
    baseHash,    \* GetHashValue() of the layer below the chain, as 16-bit halves
    hashValue,   \* per layer 0..Top: what its GetHashValue() returned
    regionStart, \* per layer of the network: the buffer pointer its Propagate got
    regionWrites \* per layer of the network: the bytes of the buffer it stored to

vars == <<kernel, assertsOn, inDim, outDims, biases, weights, input, buffer, written, pc, iter,
          stream, streamPos, streamFail, source, baseOk, loadPc, loadRet, readLog,
          baseHash, hashValue, regionStart, regionWrites>>

----------------------------------------------------------------------------
(* Integer types *)

\* std::int32_t: the largest value of OutputType / BiasType
Max32 == 2147483647

Min32 == -Max32 - 1

\* a + b in a 32-bit lane (two's complement wrap-around), computed without
\* leaving the 32-bit range
Add32(a, b) ==
    IF a > 0 /\ b > 0 /\ a > Max32 - b THEN (a - Max32 - 1) + (b - Max32 - 1)
    ELSE IF a < 0 /\ b < 0 /\ a < Min32 - b THEN (a + Max32 + 1) + (b + Max32 + 1)
    ELSE a + b

\* a byte re-read as std::int8_t
AsInt8(u) == IF u >= 128 THEN u - 256 ELSE u

\* the byte that stores a std::int8_t
AsUInt8(s) == IF s < 0 THEN s + 256 ELSE s

\* a 16-bit word read as a signed 16-bit value
AsInt16(v) == IF v >= 32768 THEN v - 65536 ELSE v

\* a saturation that already sets in at 15 bits
Sat16_At15Bits(v) == IF v > 16383 THEN 16383 ELSE IF v < -16384 THEN -16384 ELSE v

\* signed saturation to 16 bits (pmaddubsw)
Sat16(v) == IF v > 32767 THEN 32767 ELSE IF v < -32768 THEN -32768 ELSE v

\* wrap-around to signed 16 bits (NEON vmlal_s8)
Wrap16(v) == AsInt16(v % 65536)

----------------------------------------------------------------------------
(* nnue_common.h *)

kMaxSimdWidth == 32

kCacheLineSize == 64

kSimdWidth(k) ==
    CASE k \in {"AVX512", "AVX512_VNNI", "AVX2"} -> 32
      [] k \in {"SSSE3", "SSE2", "NEON"} -> 16
      [] k = "MMX" -> 8
      [] OTHER -> 1

CeilToMultiple(n, base) == ((n + base - 1) \div base) * base

UseVNNI(k) == k = "AVX512_VNNI"

----------------------------------------------------------------------------
(* Layer constants *)

kPaddedInputDimensions(In) == CeilToMultiple(In, kMaxSimdWidth)

\* sizeof(OutputType)
SizeofOutputType == 4

\* a kSelfBufferSize that counts outputs, not bytes
kSelfBufferSize_InOutputs(O) == CeilToMultiple(O, kCacheLineSize)

\* the bytes of the buffer the layer keeps for its own output
kSelfBufferSize(O) == CeilToMultiple(O * SizeofOutputType, kCacheLineSize)

----------------------------------------------------------------------------
(* Vector registers and intrinsics *)

Zero(n) == [t \in 0..(n - 1) |-> 0]

\* reinterpret_cast<const __mNNNi*>(&mem[base])[0]: n consecutive bytes
Load(mem, base, n) == [t \in 0..(n - 1) |-> mem[base + t]]

Lanes(a) == Cardinality(DOMAIN a)

\* _mm*_add_epi32 / _mm_add_pi32
add_epi32(a, b) == [t \in DOMAIN a |-> Add32(a[t], b[t])]

\* _mm*_maddubs_epi16: unsigned bytes of a times signed bytes of b, adjacent
\* products added with signed 16-bit saturation
maddubs_epi16(a, b) ==
    [t \in 0..(Lanes(a) \div 2 - 1) |->
        Sat16(a[2 * t] * b[2 * t] + a[2 * t + 1] * b[2 * t + 1])]

\* _mm*_madd_epi16 / _mm_madd_pi16: signed 16-bit words multiplied, adjacent
\* products added into 32 bits
madd_epi16(a, b) ==
    [t \in 0..(Lanes(a) \div 2 - 1) |->
        Add32(AsInt16(a[2 * t]) * AsInt16(b[2 * t]),
              AsInt16(a[2 * t + 1]) * AsInt16(b[2 * t + 1]))]

\* _mm*_set1_epi16(1) over n 16-bit lanes
kOnes(n) == [t \in 0..(n - 1) |-> 1]

\* _mm*_dpbusd_epi32 (VNNI): four unsigned-by-signed byte products added to
\* each 32-bit lane, no saturation
dpbusd_epi32(acc, a, b) ==
    [t \in DOMAIN acc |->
        Add32(acc[t], a[4 * t] * b[4 * t] + a[4 * t + 1] * b[4 * t + 1]
                      + a[4 * t + 2] * b[4 * t + 2] + a[4 * t + 3] * b[4 * t + 3])]

\* _mm_shuffle_epi32(a, imm): lane t takes lane (imm >> 2t) & 3
mm_shuffle_epi32(a, imm) == [t \in 0..3 |-> a[(imm \div (4 ^ t)) % 4]]

\* _MM_PERM_BADC and _MM_SHUFFLE(1, 0, 3, 2)
PERM_BADC == 78

\* _MM_PERM_CDAB
PERM_CDAB == 177

\* _mm_shufflelo_epi16(a, _MM_SHUFFLE(1, 0, 3, 2)): the low four 16-bit words
\* become words 2, 3, 0, 1, which swaps the two low 32-bit lanes
mm_shufflelo_epi16_BADC(a) == [t \in 0..3 |-> IF t = 0 THEN a[1] ELSE IF t = 1 THEN a[0] ELSE a[t]]

\* _mm_hadd_epi32
mm_hadd_epi32(a, b) ==
    [t \in 0..3 |->
        CASE t = 0 -> Add32(a[0], a[1])
          [] t = 1 -> Add32(a[2], a[3])
          [] t = 2 -> Add32(b[0], b[1])
          [] OTHER -> Add32(b[2], b[3])]

\* the 128-bit lane h (0-based) of a wider register
Lane128(a, h) == [t \in 0..3 |-> a[4 * h + t]]

\* a register made of the 128-bit lanes f[0], f[1], ...
FromLanes128(f, n) == [t \in 0..(4 * n - 1) |-> f[t \div 4][t % 4]]

\* _mm256_hadd_epi32: _mm_hadd_epi32 within each 128-bit lane
mm256_hadd_epi32(a, b) ==
    FromLanes128([h \in 0..1 |-> mm_hadd_epi32(Lane128(a, h), Lane128(b, h))], 2)

\* _mm256_castsi256_si128 / _mm256_extracti128_si256(a, 1)
mm256_castsi256_si128(a) == Lane128(a, 0)

mm256_extracti128_si256(a) == Lane128(a, 1)

\* _mm512_castsi512_si256 / _mm512_extracti64x4_epi64(a, 1)
mm512_castsi512_si256(a) == [t \in 0..7 |-> a[t]]

mm512_extracti64x4_epi64(a) == [t \in 0..7 |-> a[8 + t]]

\* _mm512_unpacklo_epi32 / _mm512_unpackhi_epi32, within each 128-bit lane
mm512_unpacklo_epi32(a, b) ==
    [t \in 0..15 |-> IF t % 2 = 0 THEN a[4 * (t \div 4) + (t % 4) \div 2]
                                  ELSE b[4 * (t \div 4) + (t % 4) \div 2]]

mm512_unpackhi_epi32(a, b) ==
    [t \in 0..15 |-> IF t % 2 = 0 THEN a[4 * (t \div 4) + 2 + (t % 4) \div 2]
                                  ELSE b[4 * (t \div 4) + 2 + (t % 4) \div 2]]

\* _mm512_unpacklo_epi64 / _mm512_unpackhi_epi64, on 32-bit lanes
mm512_unpacklo_epi64(a, b) ==
    [t \in 0..15 |-> IF t % 4 < 2 THEN a[4 * (t \div 4) + (t % 4)]
                                  ELSE b[4 * (t \div 4) + (t % 4) - 2]]

mm512_unpackhi_epi64(a, b) ==
    [t \in 0..15 |-> IF t % 4 < 2 THEN a[4 * (t \div 4) + 2 + (t % 4)]
                                  ELSE b[4 * (t \div 4) + (t % 4)]]

RECURSIVE ReduceAdd(_, _)
ReduceAdd(a, n) == IF n = 0 THEN 0 ELSE Add32(ReduceAdd(a, n - 1), a[n - 1])

\* _mm512_reduce_add_epi32
mm512_reduce_add_epi32(a) == ReduceAdd(a, 16)

\* _mm_cmpgt_epi8(kZeros, row) / _mm_cmpgt_pi8: 0xFF where the weight is negative
cmpgt_zero_epi8(row) == [t \in DOMAIN row |-> IF 0 > row[t] THEN 255 ELSE 0]

\* _mm_unpacklo_epi8(a, b) / _mm_unpacklo_pi8: 16-bit words with the low-half
\* bytes of a in the low byte and those of b in the high byte
unpacklo_epi8(a, b) ==
    [t \in 0..(Lanes(a) \div 2 - 1) |-> AsUInt8(a[t]) + 256 * b[t]]

\* _mm_unpackhi_epi8(a, b) / _mm_unpackhi_pi8
unpackhi_epi8(a, b) ==
    LET half == Lanes(a) \div 2
    IN  [t \in 0..(half - 1) |-> AsUInt8(a[half + t]) + 256 * b[half + t]]

\* _mm_cvtsi32_si128(v) / _mm_cvtsi32_si64(v) / int32x4_t {v}
cvtsi32(v, n) == [t \in 0..(n - 1) |-> IF t = 0 THEN v ELSE 0]

\* vmull_s8
vmull_s8(a, b) == [t \in 0..7 |-> a[t] * b[t]]

\* vmlal_s8: the products are added to 16-bit lanes, which wrap
vmlal_s8(acc, a, b) == [t \in 0..7 |-> Wrap16(acc[t] + a[t] * b[t])]

\* vpadalq_s16
vpadalq_s16(sum, product) ==
    [t \in 0..3 |-> Add32(sum[t], product[2 * t] + product[2 * t + 1])]

\* reinterpret_cast<const int8x8_t*>(input): the input bytes read as signed
LoadInt8(mem, base, n) == [t \in 0..(n - 1) |-> AsInt8(mem[base + t])]

----------------------------------------------------------------------------
(* The lambdas of Propagate *)

\* m512_hadd
m512_hadd(sum, bias) == Add32(mm512_reduce_add_epi32(sum), bias)

\* m512_haddx4
m512_haddx4(sum0, sum1, sum2, sum3, bias) ==
    LET sum01a == mm512_unpacklo_epi32(sum0, sum1)
        sum01b == mm512_unpackhi_epi32(sum0, sum1)
        sum23a == mm512_unpacklo_epi32(sum2, sum3)
        sum23b == mm512_unpackhi_epi32(sum2, sum3)
        sum01 == add_epi32(sum01a, sum01b)
        sum23 == add_epi32(sum23a, sum23b)
        sum0123a == mm512_unpacklo_epi64(sum01, sum23)
        sum0123b == mm512_unpackhi_epi64(sum01, sum23)
        sum == add_epi32(sum0123a, sum0123b)
        sum256 == add_epi32(mm512_castsi512_si256(sum), mm512_extracti64x4_epi64(sum))
        sum128lo == mm256_castsi256_si128(sum256)
        sum128hi == mm256_extracti128_si256(sum256)
    IN  add_epi32(add_epi32(sum128lo, sum128hi), bias)

\* m512_add_dpbusd_epi32: the new value of acc
m512_add_dpbusd_epi32(k, acc, a, b) ==
    IF UseVNNI(k) THEN dpbusd_epi32(acc, a, b)
    ELSE add_epi32(acc, madd_epi16(maddubs_epi16(a, b), kOnes(32)))

\* m256_hadd
m256_hadd(sum, bias) ==
    LET s0 == add_epi32(mm256_castsi256_si128(sum), mm256_extracti128_si256(sum))
        s1 == add_epi32(s0, mm_shuffle_epi32(s0, PERM_BADC))
        s2 == add_epi32(s1, mm_shuffle_epi32(s1, PERM_CDAB))
    IN  Add32(s2[0], bias)

\* m256_haddx4
m256_haddx4(sum0, sum1, sum2, sum3, bias) ==
    LET h01 == mm256_hadd_epi32(sum0, sum1)
        h23 == mm256_hadd_epi32(sum2, sum3)
        h == mm256_hadd_epi32(h01, h23)
    IN  add_epi32(add_epi32(mm256_castsi256_si128(h), mm256_extracti128_si256(h)), bias)

\* m256_add_dpbusd_epi32: the new value of acc
m256_add_dpbusd_epi32(k, acc, a, b) ==
    IF UseVNNI(k) THEN dpbusd_epi32(acc, a, b)
    ELSE add_epi32(acc, madd_epi16(maddubs_epi16(a, b), kOnes(16)))

\* m128_hadd
m128_hadd(sum, bias) ==
    LET s1 == add_epi32(sum, mm_shuffle_epi32(sum, PERM_BADC))
        s2 == add_epi32(s1, mm_shuffle_epi32(s1, PERM_CDAB))
    IN  Add32(s2[0], bias)

\* m128_haddx4 with sum1 and sum2 exchanged in the first two horizontal adds
m128_haddx4_Swapped(sum0, sum1, sum2, sum3, bias) ==
    add_epi32(mm_hadd_epi32(mm_hadd_epi32(sum0, sum2), mm_hadd_epi32(sum1, sum3)), bias)

\* m128_haddx4
m128_haddx4(sum0, sum1, sum2, sum3, bias) ==
    add_epi32(mm_hadd_epi32(mm_hadd_epi32(sum0, sum1), mm_hadd_epi32(sum2, sum3)), bias)

\* m128_add_dpbusd_epi32: the new value of acc
m128_add_dpbusd_epi32(acc, a, b) ==
    add_epi32(acc, madd_epi16(maddubs_epi16(a, b), kOnes(8)))

----------------------------------------------------------------------------
(* The loops over the chunks of one weight row: the accumulator after the   *)
(* iterations j = 0 .. n-1, for the row that starts at weights_[offset]     *)

RECURSIVE Chunks512(_, _, _, _, _)
Chunks512(k, w, x, offset, n) ==
    IF n = 0 THEN Zero(16)
    ELSE m512_add_dpbusd_epi32(k, Chunks512(k, w, x, offset, n - 1),
                               Load(x, 64 * (n - 1), 64), Load(w, offset + 64 * (n - 1), 64))

RECURSIVE Chunks256(_, _, _, _, _)
Chunks256(k, w, x, offset, n) ==
    IF n = 0 THEN Zero(8)
    ELSE m256_add_dpbusd_epi32(k, Chunks256(k, w, x, offset, n - 1),
                               Load(x, 32 * (n - 1), 32), Load(w, offset + 32 * (n - 1), 32))

RECURSIVE Chunks128(_, _, _, _)
Chunks128(w, x, offset, n) ==
    IF n = 0 THEN Zero(4)
    ELSE m128_add_dpbusd_epi32(Chunks128(w, x, offset, n - 1),
                               Load(x, 16 * (n - 1), 16), Load(w, offset + 16 * (n - 1), 16))

\* USE_SSE2 (bytes = 16) and USE_MMX (bytes = 8): <<sum_lo, sum_hi>>
RECURSIVE ChunksUnpack(_, _, _, _, _, _)
ChunksUnpack(bytes, bias, w, x, offset, n) ==
    IF n = 0 THEN <<cvtsi32(bias, bytes \div 4), Zero(bytes \div 4)>>
    ELSE LET prev == ChunksUnpack(bytes, bias, w, x, offset, n - 1)
             row_j == Load(w, offset + bytes * (n - 1), bytes)
             input_j == Load(x, bytes * (n - 1), bytes)
             kZeros == Zero(bytes)
             row_signs == cmpgt_zero_epi8(row_j)
             extended_row_lo == unpacklo_epi8(row_j, row_signs)
             extended_row_hi == unpackhi_epi8(row_j, row_signs)
             extended_input_lo == unpacklo_epi8(input_j, kZeros)
             extended_input_hi == unpackhi_epi8(input_j, kZeros)
             product_lo == madd_epi16(extended_row_lo, extended_input_lo)
             product_hi == madd_epi16(extended_row_hi, extended_input_hi)
         IN  <<add_epi32(prev[1], product_lo), add_epi32(prev[2], product_hi)>>

\* USE_NEON: sum
RECURSIVE ChunksNeon(_, _, _, _, _)
ChunksNeon(bias, w, x, offset, n) ==
    IF n = 0 THEN cvtsi32(bias, 4)
    ELSE LET j == n - 1
             product0 == vmull_s8(LoadInt8(x, 8 * (j * 2), 8), Load(w, offset + 8 * (j * 2), 8))
             product == vmlal_s8(product0, LoadInt8(x, 8 * (j * 2 + 1), 8),
                                 Load(w, offset + 8 * (j * 2 + 1), 8))
         IN  vpadalq_s16(ChunksNeon(bias, w, x, offset, n - 1), product)

\* no USE_*: sum after j = 0 .. n-1
RECURSIVE ScalarLoop(_, _, _, _, _)
ScalarLoop(bias, w, x, offset, n) ==
    IF n = 0 THEN bias
    ELSE Add32(ScalarLoop(bias, w, x, offset, n - 1), w[offset + n - 1] * x[n - 1])

----------------------------------------------------------------------------
(* Propagate: kernel selection and the loop over the outputs *)

Kernels == {"AVX512", "AVX512_VNNI", "AVX2", "SSSE3", "SSE2", "MMX", "NEON", "SCALAR"}

\* the builds whose Propagate takes the #if USE_AVX512 / #elif USE_AVX2 /
\* #elif USE_SSSE3 branch
BlockedKernels == {"AVX512", "AVX512_VNNI", "AVX2", "SSSE3"}

\* the if constexpr chain on kOutputDimensions: "x4" (kOutputDimensions % 4 == 0),
\* "x1" (kOutputDimensions == 1), "unreachable" (assert(false)); the other
\* builds run "each": one loop over all outputs
Dispatch(k, O) ==
    IF k \notin BlockedKernels THEN "each"
    ELSE IF O % 4 = 0 THEN "x4"
    ELSE IF O = 1 THEN "x1"
    ELSE "unreachable"

\* i += 4 in the "x4" loops, ++i otherwise
LoopStride(k, O) == IF Dispatch(k, O) = "x4" THEN 4 ELSE 1

\* the sum register of the row at weights_[offset], widest width the build uses
\* for this padded size: 64, 32 or 16 bytes per chunk
RowBytes(k, P) ==
    IF k \in {"AVX512", "AVX512_VNNI"} /\ P % (kSimdWidth(k) * 2) = 0 THEN 64
    ELSE IF k \in {"AVX512", "AVX512_VNNI", "AVX2"} THEN 32
    ELSE 16

\* the body of the "x4" loop for index i: the __m128i stored through outptr
Block4(k, P, b, w, x, i) ==
    LET bias == Load(b, i, 4)
        offset0 == (i + 0) * P
        offset1 == (i + 1) * P
        offset2 == (i + 2) * P
        offset3 == (i + 3) * P
    IN  CASE RowBytes(k, P) = 64 ->
               LET n == P \div (kSimdWidth(k) * 2)
               IN  m512_haddx4(Chunks512(k, w, x, offset0, n), Chunks512(k, w, x, offset1, n),
                               Chunks512(k, w, x, offset2, n), Chunks512(k, w, x, offset3, n), bias)
          [] RowBytes(k, P) = 32 ->
               LET n == P \div kSimdWidth(k)
               IN  m256_haddx4(Chunks256(k, w, x, offset0, n), Chunks256(k, w, x, offset1, n),
                               Chunks256(k, w, x, offset2, n), Chunks256(k, w, x, offset3, n), bias)
          [] OTHER ->
               LET n == P \div kSimdWidth(k)
               IN  m128_haddx4(Chunks128(w, x, offset0, n), Chunks128(w, x, offset1, n),
                               Chunks128(w, x, offset2, n), Chunks128(w, x, offset3, n), bias)

\* the "x1" branch: the value stored to output[0]
Single(k, P, b, w, x) ==
    CASE RowBytes(k, P) = 64 -> m512_hadd(Chunks512(k, w, x, 0, P \div (kSimdWidth(k) * 2)), b[0])
      [] RowBytes(k, P) = 32 -> m256_hadd(Chunks256(k, w, x, 0, P \div kSimdWidth(k)), b[0])
      [] OTHER -> m128_hadd(Chunks128(w, x, 0, P \div kSimdWidth(k)), b[0])

\* USE_SSE2: the value stored to output[i]
RowSSE2(P, b, w, x, i) ==
    LET acc == ChunksUnpack(16, b[i], w, x, i * P, P \div kSimdWidth("SSE2"))
        sum0 == add_epi32(acc[1], acc[2])
        sum_high_64 == mm_shuffle_epi32(sum0, PERM_BADC)
        sum1 == add_epi32(sum0, sum_high_64)
        sum_second_32 == mm_shufflelo_epi16_BADC(sum1)
        sum2 == add_epi32(sum1, sum_second_32)
    IN  sum2[0]

\* USE_MMX: the value stored to output[i]
RowMMX(P, b, w, x, i) ==
    LET acc == ChunksUnpack(8, b[i], w, x, i * P, P \div kSimdWidth("MMX"))
        sum0 == add_epi32(acc[1], acc[2])
        \* _mm_unpackhi_pi32(sum, sum): both lanes hold the high lane
        sum1 == add_epi32(sum0, [t \in 0..1 |-> sum0[1]])
    IN  sum1[0]

\* RowNEON with the row found at i * kInputDimensions
RowNEON_UnpaddedOffset(P, b, w, x, i) ==
    LET sum == ChunksNeon(b[i], w, x, i * inDim, P \div kSimdWidth("NEON"))
    IN  Add32(Add32(Add32(sum[0], sum[1]), sum[2]), sum[3])

\* USE_NEON: the value stored to output[i]
RowNEON(P, b, w, x, i) ==
    LET sum == ChunksNeon(b[i], w, x, i * P, P \div kSimdWidth("NEON"))
    IN  Add32(Add32(Add32(sum[0], sum[1]), sum[2]), sum[3])

\* RowScalar with the loop ending one input early
RowScalar_OffByOne(In, P, b, w, x, i) == ScalarLoop(b[i], w, x, i * P, In - 1)

\* no USE_*: the value stored to output[i]; the loop runs over kInputDimensions
RowScalar(In, P, b, w, x, i) == ScalarLoop(b[i], w, x, i * P, In)

\* the output slots the iteration for index i of the loop over the outputs
\* stores to: outptr[0] (four lanes) in "x4", output[0] in "x1", output[i] else
SlotsOfIteration(k, O, i) ==
    CASE Dispatch(k, O) = "x4" -> i..(i + 3)
      [] Dispatch(k, O) = "x1" -> {0}
      [] Dispatch(k, O) = "unreachable" -> {}
      [] OTHER -> {i}

\* what the iteration for index i of the loop over the outputs stores: a
\* function from the output slots it writes to the values
IterationStores(k, In, O, b, w, x, i) ==
    LET P == kPaddedInputDimensions(In)
    IN  CASE Dispatch(k, O) = "x4" ->
               LET v == Block4(k, P, b, w, x, i)
               IN  [s \in SlotsOfIteration(k, O, i) |-> v[s - i]]
          [] Dispatch(k, O) = "x1" ->
               [s \in SlotsOfIteration(k, O, i) |-> Single(k, P, b, w, x)]
          [] Dispatch(k, O) = "unreachable" -> [s \in SlotsOfIteration(k, O, i) |-> 0]
          [] k = "SSE2" -> [s \in SlotsOfIteration(k, O, i) |-> RowSSE2(P, b, w, x, i)]
          [] k = "MMX" -> [s \in SlotsOfIteration(k, O, i) |-> RowMMX(P, b, w, x, i)]
          [] k = "NEON" -> [s \in SlotsOfIteration(k, O, i) |-> RowNEON(P, b, w, x, i)]
          [] OTHER -> [s \in SlotsOfIteration(k, O, i) |-> RowScalar(In, P, b, w, x, i)]

\* the values of i the loop over the outputs takes
LoopIndices(k, O) ==
    IF Dispatch(k, O) = "unreachable" THEN {}
    ELSE {i \in 0..(O - 1) : i % LoopStride(k, O) = 0}

\* the output region after a whole Propagate that found it holding out
PropagateStores(k, In, O, b, w, x, out) ==
    LET st == [i \in LoopIndices(k, O) |-> IterationStores(k, In, O, b, w, x, i)]
    IN  [s \in DOMAIN out |->
            IF \E i \in LoopIndices(k, O) : s \in DOMAIN st[i]
            THEN st[CHOOSE i \in LoopIndices(k, O) : s \in DOMAIN st[i]][s]
            ELSE out[s]]

----------------------------------------------------------------------------
(* The chain and the calls *)

\* the outermost AffineTransform of the chain
Top == Len(outDims)

\* kInputDimensions of layer l: PreviousLayer::kOutputDimensions
LayerIn(l) == IF l = 1 THEN inDim ELSE outDims[l - 1]

\* the state of loading
loadVars == <<stream, streamPos, streamFail, source, baseOk, loadPc, loadRet, readLog>>

\* the state of the calls of Propagate
callVars == <<input, buffer, written, pc, iter>>

hashVars == <<baseHash, hashValue>>

chainVars == <<regionStart, regionWrites>>

\* GetHashValue has not been evaluated
InitNoHash ==
    /\ baseHash = [hi |-> 0, lo |-> 0]
    /\ hashValue = <<>>

\* no Propagate of the whole network has been made
InitNoChain ==
    /\ regionStart = <<>>
    /\ regionWrites = <<>>

\* the calls of Propagate in flight, each with a buffer of its own
Calls == {1, 2}

\* the output slots (OutputType each) of a layer's own region of the buffer
Slots(O) == 0..(kSelfBufferSize(O) \div SizeofOutputType - 1)

\* the single-threaded caller makes its calls one after the other
CallInOrder(c) == \A d \in Calls : d < c => pc[d] = "done"

\* a Propagate that keeps its output in one buffer shared by all calls
OutputBuffer_Shared(c) == 1

\* output = reinterpret_cast<OutputType*>(buffer): call c, which was given
\* buffer number c, stores to that buffer
OutputBuffer(c) == c

\* assert(false): the program aborts where assert is compiled in, and goes on
\* where NDEBUG has made it empty
AssertFalse(on) == IF on THEN "abort" ELSE "continue"

\* how a call ends: aborted in the assert(false) of the last else branch, or
\* returned through return output
EndOfCall ==
    IF Dispatch(kernel, outDims[Top]) = "unreachable" /\ AssertFalse(assertsOn) = "abort"
    THEN "aborted"
    ELSE "done"

\* Propagate, the whole call: previous_layer_.Propagate has returned input[c];
\* the selected kernel stores the outputs at the start of the buffer
Propagate(c) ==
    /\ pc[c] = "idle"
    /\ buffer' = [buffer EXCEPT ![OutputBuffer(c)] =
           PropagateStores(kernel, LayerIn(Top), outDims[Top], biases[Top], weights[Top],
                           input[c], buffer[OutputBuffer(c)])]
    /\ written' = [written EXCEPT ![c] =
           {<<OutputBuffer(c), s>> :
               s \in UNION {DOMAIN IterationStores(kernel, LayerIn(Top), outDims[Top],
                                                   biases[Top], weights[Top], input[c], i) :
                            i \in LoopIndices(kernel, outDims[Top])}}]
    /\ pc' = [pc EXCEPT ![c] = EndOfCall]
    /\ iter' = [iter EXCEPT ![c] = outDims[Top]]
    /\ UNCHANGED <<kernel, assertsOn, inDim, outDims, biases, weights, input>>
    /\ UNCHANGED <<loadVars, hashVars, chainVars>>

\* Propagate step by step, for calls that run at the same time.
\* Entry: previous_layer_.Propagate has returned input[c]; the loop starts
Enter(c) ==
    /\ pc[c] = "idle"
    /\ pc' = [pc EXCEPT ![c] = "loop"]
    /\ iter' = [iter EXCEPT ![c] = 0]
    /\ UNCHANGED <<kernel, assertsOn, inDim, outDims, biases, weights, input, buffer, written>>
    /\ UNCHANGED <<loadVars, hashVars, chainVars>>

\* one iteration of the loop over the outputs (the "x1" branch is one iteration)
Iterate(c) ==
    /\ pc[c] = "loop"
    /\ Dispatch(kernel, outDims[Top]) # "unreachable"
    /\ iter[c] < outDims[Top]
    /\ LET st == IterationStores(kernel, LayerIn(Top), outDims[Top], biases[Top],
                                 weights[Top], input[c], iter[c])
       IN  /\ buffer' = [buffer EXCEPT ![OutputBuffer(c)] =
                  [s \in DOMAIN @ |-> IF s \in DOMAIN st THEN st[s] ELSE @[s]]]
           /\ written' = [written EXCEPT ![c] = @ \cup {<<OutputBuffer(c), s>> : s \in DOMAIN st}]
    /\ iter' = [iter EXCEPT ![c] = @ + LoopStride(kernel, outDims[Top])]
    /\ UNCHANGED <<kernel, assertsOn, inDim, outDims, biases, weights, input, pc>>
    /\ UNCHANGED <<loadVars, hashVars, chainVars>>

\* assert(false) in the last else branch, and return output
Return(c) ==
    /\ pc[c] = "loop"
    /\ Dispatch(kernel, outDims[Top]) = "unreachable" \/ iter[c] >= outDims[Top]
    /\ pc' = [pc EXCEPT ![c] = EndOfCall]
    /\ UNCHANGED <<kernel, assertsOn, inDim, outDims, biases, weights, input, buffer, written, iter>>
    /\ UNCHANGED <<loadVars, hashVars, chainVars>>

----------------------------------------------------------------------------
(* The layers and inputs the checks run on *)

\* seeds 0..MaxSeed select the weight and input patterns
MaxSeed == 2

\* kInputDimensions: below and above one kMaxSimdWidth, so that the padded
\* size is one and two times kMaxSimdWidth and both have padding
InputDims == {29, 33}

\* kOutputDimensions: the final layer and a hidden layer
OutputDims == {1, 4}

\* weights_[i * P + j] of pattern s: all 127, all -128, or mixed over the whole
\* std::int8_t range; zeroPad makes the columns j >= In zero
WeightAt(s, zeroPad, In, i, j) ==
    IF zeroPad /\ j >= In THEN 0
    ELSE IF s = 0 THEN 127
    ELSE IF s = 1 THEN -128
    ELSE ((i * 37 + j * 11 + s * 53) % 256) - 128

\* biases_[i] of pattern s: next to the top of std::int32_t (with the all-127
\* weights), next to its bottom (with the all -128 weights), or small
BiasAt(s, i) == IF s = 0 THEN Max32 - i ELSE IF s = 1 THEN Min32 + i ELSE 10 * i - 5

\* input[j] of pattern s with bytes in 0..hi: all hi, or mixed; zeroPad makes
\* the bytes j >= In zero
InputAt(s, hi, zeroPad, In, j) ==
    IF zeroPad /\ j >= In THEN 0
    ELSE IF s = 0 THEN hi
    ELSE (j * 29 + s * 7) % (hi + 1)

\* a second input that agrees with x on [0, In) and differs on every byte of
\* the padding
OtherPadding(x, In) == [j \in DOMAIN x |-> IF j < In THEN x[j] ELSE (x[j] + 77) % 256]

InitLayer(In, O, ws, wz) ==
    LET P == kPaddedInputDimensions(In)
    IN  /\ inDim = In
        /\ outDims = <<O>>
        /\ biases = <<[i \in 0..(O - 1) |-> BiasAt(ws, i)]>>
        /\ weights = <<[q \in 0..(O * P - 1) |-> WeightAt(ws, wz, In, q \div P, q % P)]>>

InitCalls(In, O, xs, hi, xz) ==
    LET P == kPaddedInputDimensions(In)
        x == [j \in 0..(P - 1) |-> InputAt(xs, hi, xz, In, j)]
    IN  /\ input = [c \in Calls |-> IF c = 1 THEN x ELSE OtherPadding(x, In)]
        /\ buffer = [c \in Calls |-> [s \in Slots(O) |-> 0]]
        /\ written = [c \in Calls |-> {}]
        /\ pc = [c \in Calls |-> "idle"]
        /\ iter = [c \in Calls |-> 0]

\* loading is over: the stream was read to its end and every layer returned true
InitLoaded ==
    /\ stream = <<>>
    /\ streamPos = 0
    /\ streamFail = FALSE
    /\ source = [biases |-> biases, weights |-> weights]
    /\ baseOk = TRUE
    /\ loadPc = "loaded"
    /\ loadRet = [l \in 0..Top |-> [ok |-> TRUE, pos |-> 0]]
    /\ readLog = <<>>

\* a loaded layer of every shape in every build, and two calls about to run
InitProp ==
    /\ kernel \in Kernels
    /\ assertsOn = FALSE
    /\ \E In \in InputDims, O \in OutputDims :
          /\ \E ws \in 0..MaxSeed, wz \in BOOLEAN : InitLayer(In, O, ws, wz)
          /\ \E xs \in 0..MaxSeed, hi \in {127, 255}, xz \in BOOLEAN : InitCalls(In, O, xs, hi, xz)
    /\ InitLoaded
    /\ InitNoHash
    /\ InitNoChain

NextProp == \E c \in Calls : CallInOrder(c) /\ Propagate(c)

SpecProp == InitProp /\ [][NextProp]_vars

----------------------------------------------------------------------------
(* Properties of Propagate (SpecProp) *)

\* sum of weight[offset + j] * input[j] over lo <= j < hi, in the integers
RECURSIVE DotProduct(_, _, _, _, _)
DotProduct(w, x, offset, lo, hi) ==
    IF hi <= lo THEN 0
    ELSE IF hi = lo + 1 THEN w[offset + lo] * x[lo]
    ELSE LET mid == (lo + hi) \div 2
         IN  DotProduct(w, x, offset, lo, mid) + DotProduct(w, x, offset, mid, hi)

TopIn == LayerIn(Top)

TopOut == outDims[Top]

TopP == kPaddedInputDimensions(TopIn)

\* bias[i] + sum over the whole padded row, as a signed 32-bit value
AffineValue(c, i) ==
    Add32(biases[Top][i], DotProduct(weights[Top], input[c], i * TopP, 0, TopP))

\* every byte of the call's input is in [0, 127]
InputInRange(c) == \A j \in 0..(TopP - 1) : input[c][j] <= 127

\* the call's input is zero on [input_dimensions, padded_input_dimensions)
InputZeroPadded(c) == \A j \in TopIn..(TopP - 1) : input[c][j] = 0

\* the layer's weights are zero on the padded columns
WeightsZeroPadded ==
    \A i \in 0..(TopOut - 1) : \A j \in TopIn..(TopP - 1) : weights[Top][i * TopP + j] = 0

\* the output of the scalar reference kernel on the call's layer and input
ScalarReference(c) ==
    PropagateStores("SCALAR", TopIn, TopOut, biases[Top], weights[Top], input[c],
                    [s \in Slots(TopOut) |-> 0])

\* C1 as stated: after Propagate every output slot i holds
\* bias[i] + sum over j in [0, padded_input_dimensions) of weight[i][j] * input[j],
\* for every loaded layer and every input of unsigned bytes
C1_AsStated ==
    \A c \in Calls : pc[c] = "done" =>
        \A i \in 0..(TopOut - 1) : buffer[c][i] = AffineValue(c, i)

\* C1 amended: the same, for inputs whose bytes are all in [0, 127] and whose
\* padded positions are zero in the input or in the weights
C1_AffineValue ==
    \A c \in Calls :
        (pc[c] = "done" /\ InputInRange(c) /\ (InputZeroPadded(c) \/ WeightsZeroPadded)) =>
            \A i \in 0..(TopOut - 1) : buffer[c][i] = AffineValue(c, i)

\* a finished call of a vector kernel on an in-range, zero-padded input and a
\* layer with mixed weights that are not zero on the padding
C1_Witness ==
    /\ pc[1] = "done" /\ InputInRange(1) /\ InputZeroPadded(1) /\ ~WeightsZeroPadded
    /\ kernel = "SSSE3" /\ TopOut = 4 /\ TopIn = 33
    /\ weights[Top][0] # weights[Top][1]
    /\ \E i \in 0..3 : buffer[1][i] # biases[Top][i]

\* C2 as stated: every kernel's output equals the scalar reference kernel's,
\* for every weight matrix, bias vector and input of unsigned bytes
C2_AsStated ==
    \A c \in Calls : pc[c] = "done" =>
        \A i \in 0..(TopOut - 1) : buffer[c][i] = ScalarReference(c)[i]

\* C2 amended: every kernel's output equals the scalar reference kernel's, for
\* inputs whose bytes are all in [0, 127] and whose padded positions are zero
\* in the input or in the weights
C2_KernelEquivalence ==
    \A c \in Calls :
        (pc[c] = "done" /\ InputInRange(c) /\ (InputZeroPadded(c) \/ WeightsZeroPadded)) =>
            \A i \in 0..(TopOut - 1) : buffer[c][i] = ScalarReference(c)[i]

\* a finished call of the 512-bit kernel, four outputs at a time, on an
\* in-range input with garbage in its padding and a zero-padded mixed layer
C2_Witness ==
    /\ pc[2] = "done" /\ InputInRange(2) /\ ~InputZeroPadded(2) /\ WeightsZeroPadded
    /\ kernel = "AVX512" /\ TopOut = 4 /\ TopP = 64
    /\ weights[Top][0] # weights[Top][1]
    /\ buffer[2][0] # buffer[2][1]

\* C3 as stated: two inputs that agree on [0, input_dimensions) give the same
\* output on the same loaded layer, in every kernel
C3_AsStated ==
    (pc[1] = "done" /\ pc[2] = "done") =>
        \A i \in 0..(TopOut - 1) : buffer[1][i] = buffer[2][i]

\* C3 amended: they give the same output in the scalar kernel, and in every
\* vector kernel when the layer's weights are zero on the padded columns
C3_PaddingInvariant ==
    (pc[1] = "done" /\ pc[2] = "done" /\ (kernel = "SCALAR" \/ WeightsZeroPadded)) =>
        \A i \in 0..(TopOut - 1) : buffer[1][i] = buffer[2][i]

\* both calls finished in a vector kernel, on inputs that agree on the real
\* positions and differ on the padding, one of them with bytes above 127
C3_Witness ==
    /\ pc[1] = "done" /\ pc[2] = "done" /\ WeightsZeroPadded
    /\ kernel = "NEON" /\ TopOut = 4
    /\ \A j \in 0..(TopIn - 1) : input[1][j] = input[2][j]
    /\ \A j \in TopIn..(TopP - 1) : input[1][j] # input[2][j]
    /\ \E j \in TopIn..(TopP - 1) : input[2][j] > 127
    /\ buffer[1][0] # biases[Top][0]

----------------------------------------------------------------------------
(* ReadParameters *)

\* sizeof(BiasType)
SizeofBiasType == 4

\* sizeof(WeightType)
SizeofWeightType == 1

\* read_little_endian<BiasType>: the value of the four bytes at position p
LittleEndian32(str, p) ==
    str[p + 1] + 256 * str[p + 2] + 65536 * str[p + 3] + 16777216 * AsInt8(str[p + 4])

\* read_little_endian<WeightType>: the value of the byte at position p
LittleEndian8(str, p) == AsInt8(str[p + 1])

\* std::istream::read, k times n bytes from position p with failbit f.  A read
\* on a failed stream extracts nothing; a read that meets the end of the stream
\* extracts what is left and sets failbit.  The number of reads that succeed:
ReadsDone(str, p, f, n, k) ==
    IF f THEN 0
    ELSE IF (Len(str) - p) \div n < k THEN (Len(str) - p) \div n
    ELSE k

\* the read position after those k reads
PosAfter(str, p, f, n, k) ==
    IF f THEN p
    ELSE IF ReadsDone(str, p, f, n, k) = k THEN p + n * k
    ELSE Len(str)

\* the failbit after those k reads
FailAfter(str, p, f, n, k) == f \/ ReadsDone(str, p, f, n, k) < k

\* what read_little_endian returns when the read failed: its buffer was not
\* (fully) written, the value is indeterminate
Garbage == {0, -1}

\* ReadParameters skipping a number of weights: the bound of the loop taken
\* from the unpadded row length
NumWeights_Unpadded(O, In) == O * In

\* the bound of the loop over weights_: kOutputDimensions * kPaddedInputDimensions
NumWeights(O, In) == O * kPaddedInputDimensions(In)

\* ReadParameters that goes on after the predecessor failed
PredecessorFailed_Ignored(ok) == FALSE

\* if (!previous_layer_.ReadParameters(stream)) return false;
PredecessorFailed(ok) == ~ok

\* ReadParameters that reports success whatever the stream's state
ReadResult_AlwaysTrue(fail) == TRUE

\* return !stream.fail();
ReadResult(fail) == ~fail

\* ReadParameters of layer l (0: the layer below the chain), called in the
\* state of the model, failed reads returning g.  The result: for every layer
\* up to l what its ReadParameters returned and the stream's position and
\* failbit at that return; the biases_ and weights_ of the layers; the reads
\* made, in order
RECURSIVE ReadParametersOf(_, _)
ReadParametersOf(l, g) ==
    IF l = 0
    THEN [ret |-> [k \in {0} |-> [ok |-> baseOk, pos |-> streamPos, fail |-> streamFail]],
          biases |-> biases, weights |-> weights, log |-> << <<0, "base">> >>]
    ELSE LET prev == ReadParametersOf(l - 1, g)
             before == prev.ret[l - 1]
             O == outDims[l]
             n == NumWeights(O, LayerIn(l))
             nb == ReadsDone(stream, before.pos, before.fail, SizeofBiasType, O)
             p1 == PosAfter(stream, before.pos, before.fail, SizeofBiasType, O)
             f1 == FailAfter(stream, before.pos, before.fail, SizeofBiasType, O)
             nw == ReadsDone(stream, p1, f1, SizeofWeightType, n)
             p2 == PosAfter(stream, p1, f1, SizeofWeightType, n)
             f2 == FailAfter(stream, p1, f1, SizeofWeightType, n)
             b == [i \in DOMAIN biases[l] |->
                      IF i < nb THEN LittleEndian32(stream, before.pos + SizeofBiasType * i)
                      ELSE g]
             w == [i \in DOMAIN weights[l] |->
                      IF i >= n THEN weights[l][i]
                      ELSE IF i < nw THEN LittleEndian8(stream, p1 + SizeofWeightType * i)
                      ELSE g]
         IN  IF PredecessorFailed(before.ok)
             THEN [prev EXCEPT !.ret = [k \in 0..l |->
                       IF k < l THEN prev.ret[k] ELSE [before EXCEPT !.ok = FALSE]]]
             ELSE [ret |-> [k \in 0..l |->
                       IF k < l THEN prev.ret[k]
                       ELSE [ok |-> ReadResult(f2), pos |-> p2, fail |-> f2]],
                   biases |-> [prev.biases EXCEPT ![l] = b],
                   weights |-> [prev.weights EXCEPT ![l] = w],
                   log |-> prev.log \o << <<l, "biases">>, <<l, "weights">> >>]

\* ReadParameters of the outermost layer, the whole call
ReadParameters ==
    /\ loadPc = "idle"
    /\ \E g \in Garbage :
          LET r == ReadParametersOf(Top, g)
          IN  /\ biases' = r.biases
              /\ weights' = r.weights
              /\ streamPos' = r.ret[Top].pos
              /\ streamFail' = r.ret[Top].fail
              /\ loadRet' = r.ret
              /\ readLog' = r.log
    /\ loadPc' = "loaded"
    /\ UNCHANGED <<kernel, assertsOn, inDim, outDims, stream, source, baseOk>>
    /\ UNCHANGED <<callVars, hashVars, chainVars>>

----------------------------------------------------------------------------
(* The binary parameter format, and the streams the checks run on *)

\* byte k (0-based) of the little-endian two's complement form of v
LittleEndianByte(v, k) == (v \div (256 ^ k)) % 256

\* the block of one layer: its biases, then its weights row after row
SerializeLayer(b, w, O, n) ==
    [k \in 1..(SizeofBiasType * O + n) |->
        IF k <= SizeofBiasType * O
        THEN LittleEndianByte(b[(k - 1) \div SizeofBiasType], (k - 1) % SizeofBiasType)
        ELSE AsUInt8(w[k - 1 - SizeofBiasType * O])]

\* the blocks of the layers 1..l, the predecessor's first
RECURSIVE Serialize(_, _)
Serialize(src, l) ==
    IF l = 0 THEN <<>>
    ELSE Serialize(src, l - 1)
         \o SerializeLayer(src.biases[l], src.weights[l], outDims[l],
                           outDims[l] * kPaddedInputDimensions(LayerIn(l)))

\* the bytes a stream may hold after the chain's block
MaxExtra == 2

\* the chains that are loaded
LoadChains == {<<1>>, <<4>>, <<1, 1>>, <<4, 1>>}

\* the parameters of pattern s for the chain
SourceOf(s) ==
    [biases |-> [l \in 1..Top |-> [i \in 0..(outDims[l] - 1) |-> BiasAt(s, i + l - 1)]],
     weights |-> [l \in 1..Top |->
         [q \in 0..(outDims[l] * kPaddedInputDimensions(LayerIn(l)) - 1) |->
             WeightAt(s + l + 1, FALSE, LayerIn(l),
                      q \div kPaddedInputDimensions(LayerIn(l)),
                      q % kPaddedInputDimensions(LayerIn(l)))]]]

\* no call of Propagate is made while loading
InitNoCalls ==
    /\ input = [c \in Calls |-> <<>>]
    /\ buffer = [c \in Calls |-> <<>>]
    /\ written = [c \in Calls |-> {}]
    /\ pc = [c \in Calls |-> "idle"]
    /\ iter = [c \in Calls |-> 0]

\* a constructed chain and a stream that holds a serialized chain, whole or cut
\* short anywhere, good or already failed
InitLoad ==
    /\ kernel = "SCALAR"
    /\ assertsOn = FALSE
    /\ inDim = 29
    /\ outDims \in LoadChains
    /\ biases = [l \in 1..Top |-> [i \in 0..(outDims[l] - 1) |-> 85]]
    /\ weights = [l \in 1..Top |->
           [q \in 0..(outDims[l] * kPaddedInputDimensions(LayerIn(l)) - 1) |-> 85]]
    /\ \E s \in 0..MaxSeed : source = SourceOf(s)
    /\ \E n \in 0..(Len(Serialize(source, Top)) + MaxExtra) :
          stream = SubSeq(Serialize(source, Top) \o [k \in 1..MaxExtra |-> 171], 1, n)
    /\ streamPos = 0
    /\ streamFail \in BOOLEAN
    /\ baseOk \in BOOLEAN
    /\ loadPc = "idle"
    /\ loadRet = <<>>
    /\ readLog = <<>>
    /\ InitNoCalls
    /\ InitNoHash
    /\ InitNoChain

NextLoad == ReadParameters

SpecLoad == InitLoad /\ [][NextLoad]_vars

----------------------------------------------------------------------------
(* Properties of ReadParameters (SpecLoad) *)

\* the size in bytes of layer l's block of the stream
BlockSize(l) ==
    SizeofBiasType * outDims[l]
    + SizeofWeightType * outDims[l] * kPaddedInputDimensions(LayerIn(l))

\* the log never shows a read of a layer before a read of a layer below it
PredecessorReadsFirst(log) ==
    \A a \in 1..Len(log) : \A b \in 1..Len(log) : a < b => log[a][1] <= log[b][1]

\* C4: when the predecessor's ReadParameters returns failure, the layer's
\* ReadParameters returns failure, leaves the stream where the predecessor left
\* it and leaves its biases and weights as they were; and every read of the
\* predecessor comes before any read of the layer
C4_FailurePropagation ==
    [][ReadParameters =>
          /\ \A l \in 1..Top :
                ~loadRet'[l - 1].ok =>
                    /\ ~loadRet'[l].ok
                    /\ loadRet'[l].pos = loadRet'[l - 1].pos
                    /\ biases'[l] = biases[l]
                    /\ weights'[l] = weights[l]
          /\ PredecessorReadsFirst(readLog')]_vars

\* the load is over, the stream was whole and good, and still the lower
\* affine layer failed on a cut-short block, so the upper one did not read
C4_Witness ==
    /\ loadPc = "loaded" /\ Top = 2 /\ baseOk
    /\ ~loadRet[0].fail /\ ~loadRet[1].ok /\ ~loadRet[2].ok
    /\ loadRet[1].pos > 0
    /\ \A i \in DOMAIN biases[2] : biases[2][i] = 85
    /\ biases[1] # [i \in DOMAIN biases[1] |-> 85]

\* C5: a layer whose predecessor succeeded returns success exactly when the
\* stream was good and held the layer's whole block (all biases and all
\* weights); on success the stream stands right after the block
C5_ShortReadFails ==
    loadPc = "loaded" =>
        \A l \in 1..Top :
            loadRet[l - 1].ok =>
                /\ loadRet[l].ok <=>
                       (~loadRet[l - 1].fail
                        /\ loadRet[l - 1].pos + BlockSize(l) <= Len(stream))
                /\ loadRet[l].ok => loadRet[l].pos = loadRet[l - 1].pos + BlockSize(l)

\* a load that failed on a stream that ended in the middle of the weight block
C5_Witness ==
    /\ loadPc = "loaded" /\ baseOk /\ ~loadRet[0].fail
    /\ ~loadRet[Top].ok /\ loadRet[Top - 1].ok
    /\ Len(stream) > loadRet[Top - 1].pos + SizeofBiasType * outDims[Top]
    /\ Len(stream) < loadRet[Top - 1].pos + BlockSize(Top)

\* the stream begins with the serialized parameters and is good
HoldsSerialized ==
    /\ Len(stream) >= Len(Serialize(source, Top))
    /\ SubSeq(stream, 1, Len(Serialize(source, Top))) = Serialize(source, Top)
    /\ ~loadRet[0].fail
    /\ baseOk

\* C6: reading back a stream that holds the biases (little-endian, 32 bits)
\* and then the weights (8 bits, row-major, row length
\* padded_input_dimensions) of every layer succeeds and leaves biases_ and
\* weights_ equal to the serialized values
C6_RoundTrip ==
    (loadPc = "loaded" /\ HoldsSerialized) =>
        /\ loadRet[Top].ok
        /\ biases = source.biases
        /\ weights = source.weights

\* a two-layer chain read back from a whole stream, with negative biases and
\* weights among the values
C6_Witness ==
    /\ loadPc = "loaded" /\ HoldsSerialized /\ outDims = <<4, 1>>
    /\ loadRet[Top].ok
    /\ \E i \in DOMAIN biases[1] : biases[1][i] < 0
    /\ \E q \in DOMAIN weights[1] : weights[1][q] < 0
    /\ \E q \in DOMAIN weights[2] : weights[2][q] > 0

----------------------------------------------------------------------------
(* GetHashValue.  A std::uint32_t is kept as its two 16-bit halves. *)

\* 2^n
RECURSIVE Pow2(_)
Pow2(n) == IF n = 0 THEN 1 ELSE 2 * Pow2(n - 1)

\* 2^16
Half == Pow2(16)

\* the two halves of 0xCC03DAE4u
HashSeedHi == 52227

HashSeedLo == 56036

\* a += n on std::uint32_t, for n < 2^16
AddU32(a, n) ==
    [hi |-> (a.hi + (a.lo + n) \div Half) % Half, lo |-> (a.lo + n) % Half]

\* a >> n on std::uint32_t, for 0 < n < 16
ShiftRightU32(a, n) ==
    [hi |-> a.hi \div Pow2(n), lo |-> a.lo \div Pow2(n) + (a.hi % Pow2(n)) * Pow2(16 - n)]

\* a << n on std::uint32_t, for 16 <= n < 32
ShiftLeftU32(a, n) == [hi |-> (a.lo * Pow2(n - 16)) % Half, lo |-> 0]

\* a ^ b on n-bit values
RECURSIVE Xor(_, _, _)
Xor(a, b, n) ==
    IF n = 0 THEN 0 ELSE ((a + b) % 2) + 2 * Xor(a \div 2, b \div 2, n - 1)

\* a ^ b on std::uint32_t
XorU32(a, b) == [hi |-> Xor(a.hi, b.hi, 16), lo |-> Xor(a.lo, b.lo, 16)]

\* a GetHashValue that leaves out the line with << 31
GetHashValueOf_NoShiftLeft(O, prev) ==
    XorU32(AddU32([hi |-> HashSeedHi, lo |-> HashSeedLo], O), ShiftRightU32(prev, 1))

\* the body of GetHashValue, for kOutputDimensions = O and
\* PreviousLayer::GetHashValue() = prev
GetHashValueOf(O, prev) ==
    LET h0 == [hi |-> HashSeedHi, lo |-> HashSeedLo]
        h1 == AddU32(h0, O)
        h2 == XorU32(h1, ShiftRightU32(prev, 1))
        h3 == XorU32(h2, ShiftLeftU32(prev, 31))
    IN  h3

\* GetHashValue of layer l of the chain; layer 0 is the layer below the chain
RECURSIVE HashOfLayer(_)
HashOfLayer(l) ==
    IF l = 0 THEN baseHash ELSE GetHashValueOf(outDims[l], HashOfLayer(l - 1))

\* GetHashValue() of the outermost layer is evaluated
GetHashValue ==
    /\ hashValue = <<>>
    /\ hashValue' = [l \in 0..Top |-> HashOfLayer(l)]
    /\ UNCHANGED <<kernel, assertsOn, inDim, outDims, biases, weights, baseHash>>
    /\ UNCHANGED <<callVars, loadVars, chainVars>>

\* output dimensions of the layers of the hashed chains
HashDims == {1, 4, 8, 32}

\* longest hashed chain
MaxHashChain == 2

\* halves of the hash values of the layer below the chain
BaseHalves == {0, 1, 32768, 65535, 60482, 59661}

\* chains of every shape over layers below with different hash values, in two
\* builds and with different parameters loaded
InitHash ==
    /\ kernel \in {"SCALAR", "AVX2"}
    /\ assertsOn = FALSE
    /\ inDim = 29
    /\ \E n \in 1..MaxHashChain : outDims \in [1..n -> HashDims]
    /\ \E s \in 0..1 :
          /\ biases = [l \in 1..Top |-> [i \in 0..(outDims[l] - 1) |-> s]]
          /\ weights = [l \in 1..Top |->
                 [q \in 0..(outDims[l] * kPaddedInputDimensions(LayerIn(l)) - 1) |-> s]]
    /\ baseHash \in [hi : BaseHalves, lo : BaseHalves]
    /\ hashValue = <<>>
    /\ InitNoCalls
    /\ InitLoaded
    /\ InitNoChain

NextHash == GetHashValue

SpecHash == InitHash /\ [][NextHash]_vars

----------------------------------------------------------------------------
(* Properties of GetHashValue (SpecHash) *)

\* bit k (0 = lowest) of a 32-bit value
Bit(a, k) == IF k < 16 THEN (a.lo \div Pow2(k)) % 2 ELSE (a.hi \div Pow2(k - 16)) % 2

\* (0xCC03DAE4 + O) modulo 2^32, by long addition on the halves
SeedPlus(O) ==
    LET lo == HashSeedLo + O
    IN  [hi |-> (HashSeedHi + lo \div Half) % Half, lo |-> lo % Half]

\* bit k of (p >> 1) and of (p << 31), both modulo 2^32
BitOfShiftRight1(p, k) == IF k < 31 THEN Bit(p, k + 1) ELSE 0

BitOfShiftLeft31(p, k) == IF k = 31 THEN Bit(p, 0) ELSE 0

\* the hash the formula gives to the chain of the first l layers, from the
\* output dimensions and the hash of the layer below alone
RECURSIVE FormulaHash(_, _, _)
FormulaHash(dims, base, l) ==
    IF l = 0 THEN base
    ELSE LET p == FormulaHash(dims, base, l - 1)
             bits == [k \in 0..31 |->
                        (Bit(SeedPlus(dims[l]), k) + BitOfShiftRight1(p, k)
                            + BitOfShiftLeft31(p, k)) % 2]
         IN  [hi |-> bits[16] + 2 * bits[17] + 4 * bits[18] + 8 * bits[19]
                     + 16 * bits[20] + 32 * bits[21] + 64 * bits[22] + 128 * bits[23]
                     + 256 * bits[24] + 512 * bits[25] + 1024 * bits[26]
                     + 2048 * bits[27] + 4096 * bits[28] + 8192 * bits[29]
                     + 16384 * bits[30] + 32768 * bits[31],
              lo |-> bits[0] + 2 * bits[1] + 4 * bits[2] + 8 * bits[3]
                     + 16 * bits[4] + 32 * bits[5] + 64 * bits[6] + 128 * bits[7]
                     + 256 * bits[8] + 512 * bits[9] + 1024 * bits[10]
                     + 2048 * bits[11] + 4096 * bits[12] + 8192 * bits[13]
                     + 16384 * bits[14] + 32768 * bits[15]]

\* C7: the hash of every layer of the chain is
\* (0xCC03DAE4 + output_dimensions) XOR (p >> 1) XOR (p << 31) modulo 2^32, p
\* the hash of its predecessor; it is therefore the value the formula gives
\* from the chain's output dimensions and the hash of the layer below, whatever
\* the build and the loaded parameters
C7_HashValue ==
    hashValue # <<>> =>
        \A l \in 0..Top : hashValue[l] = FormulaHash(outDims, baseHash, l)

\* a chain of two layers over a layer whose hash has its lowest and its highest
\* bit set has been hashed
C7_Witness ==
    /\ hashValue # <<>>
    /\ Top = 2
    /\ baseHash.lo % 2 = 1
    /\ baseHash.hi >= 32768
    /\ weights[1][0] = 1

----------------------------------------------------------------------------
(* Propagate called from two threads on one loaded layer (SpecConc) *)

\* output dimensions of the layer the threads share
ConcOutputDims == {1, 4, 8}

\* a loaded layer in every build and two calls with different inputs, each
\* with its own buffer
InitConc ==
    /\ kernel \in Kernels
    /\ assertsOn = FALSE
    /\ \E O \in ConcOutputDims :
          /\ InitLayer(29, O, 2, FALSE)
          /\ \E hi \in {127, 255} :
                input = [c \in Calls |->
                           [j \in 0..(kPaddedInputDimensions(29) - 1) |->
                               InputAt(c, hi, FALSE, 29, j)]]
          /\ buffer = [c \in Calls |-> [s \in Slots(O) |-> 0]]
    /\ written = [c \in Calls |-> {}]
    /\ pc = [c \in Calls |-> "idle"]
    /\ iter = [c \in Calls |-> 0]
    /\ InitLoaded
    /\ InitNoHash
    /\ InitNoChain

NextConc == \E c \in Calls : Enter(c) \/ Iterate(c) \/ Return(c)

SpecConc == InitConc /\ [][NextConc]_vars

\* what call c returns when it is the only call made on the layer
Alone(c) ==
    PropagateStores(kernel, TopIn, TopOut, biases[Top], weights[Top], input[c],
                    [s \in Slots(TopOut) |-> 0])

\* C8: under every interleaving of two Propagate calls on one loaded layer with
\* different buffers, the layer's biases and weights stay as loaded, each call
\* stores only to output slots of the buffer it was given, every output it has
\* stored is the one it stores when run alone, and a call that has returned
\* has stored all of them
C8_NoInterference ==
    /\ biases = source.biases
    /\ weights = source.weights
    /\ \A c \in Calls :
          /\ written[c] \subseteq {<<c, s>> : s \in Slots(TopOut)}
          /\ \A s \in 0..(TopOut - 1) :
                <<c, s>> \in written[c] => buffer[c][s] = Alone(c)[s]
          /\ pc[c] = "done" => \A s \in 0..(TopOut - 1) : <<c, s>> \in written[c]

\* both calls are in the middle of their loops over the outputs at the same
\* time, on different inputs
C8_Witness ==
    /\ \A c \in Calls : pc[c] = "loop" /\ 0 < iter[c] /\ iter[c] < TopOut
    /\ input[1] # input[2]
    /\ Alone(1) # Alone(2)
    /\ written[1] # {} /\ written[2] # {}

----------------------------------------------------------------------------
(* The shared buffer of a chain of layers.  Offsets are in bytes from the    *)
(* pointer the caller gives to the outermost layer; only the addresses of    *)
(* the stores are followed here, their values are those of Propagate above.  *)

\* kBufferSize of the layer below the chain, which stores nothing in the buffer
BaseBufferSize == 0

\* kBufferSize of layer l: PreviousLayer::kBufferSize + kSelfBufferSize
RECURSIVE kBufferSize(_)
kBufferSize(l) ==
    IF l = 0 THEN BaseBufferSize ELSE kBufferSize(l - 1) + kSelfBufferSize(outDims[l])

\* a Propagate that hands its predecessor the part of the buffer below its own
PredecessorBuffer_Below(buf, O) == buf - kSelfBufferSize(O)

\* the buffer pointer a layer that got buf hands to previous_layer_.Propagate
PredecessorBuffer(buf, O) == buf + kSelfBufferSize(O)

\* the buffer pointer layer l gets when the caller gives 0 to the outermost
RECURSIVE BufferOfLayer(_)
BufferOfLayer(l) ==
    IF l = Top THEN 0 ELSE PredecessorBuffer(BufferOfLayer(l + 1), outDims[l + 1])

\* the bytes layer l stores to: output = reinterpret_cast<OutputType*>(buffer),
\* and every slot the loop over the outputs writes
StoredBytes(l) ==
    {BufferOfLayer(l) + SizeofOutputType * s + k :
        s \in UNION {SlotsOfIteration(kernel, outDims[l], i) :
                        i \in LoopIndices(kernel, outDims[l])},
        k \in 0..(SizeofOutputType - 1)}

\* Propagate of the outermost layer, the whole call: every layer calls its
\* predecessor first and then stores its outputs
PropagateChain ==
    /\ regionStart = <<>>
    /\ regionStart' = [l \in 1..Top |-> BufferOfLayer(l)]
    /\ regionWrites' = [l \in 1..Top |-> StoredBytes(l)]
    /\ UNCHANGED <<kernel, assertsOn, inDim, outDims, biases, weights>>
    /\ UNCHANGED <<callVars, loadVars, hashVars>>

\* output dimensions of the layers of the chains
ChainDims == {1, 4, 32}

\* longest chain
MaxChain == 3

\* a loaded chain of every shape in every build
InitChain ==
    /\ kernel \in Kernels
    /\ assertsOn = FALSE
    /\ inDim = 29
    /\ \E n \in 1..MaxChain : outDims \in [1..n -> ChainDims]
    /\ biases = [l \in 1..Top |-> [i \in 0..(outDims[l] - 1) |-> 1]]
    /\ weights = [l \in 1..Top |->
           [q \in 0..(outDims[l] * kPaddedInputDimensions(LayerIn(l)) - 1) |-> 1]]
    /\ regionStart = <<>>
    /\ regionWrites = <<>>
    /\ InitNoCalls
    /\ InitLoaded
    /\ InitNoHash

NextChain == PropagateChain

SpecChain == InitChain /\ [][NextChain]_vars

----------------------------------------------------------------------------
(* Properties of the shared buffer (SpecChain) *)

\* output_dimensions * 4 rounded up to a multiple of the 64-byte cache line
RoundedOutputBytes(O) == ((O * 4 + 63) \div 64) * 64

\* the sum of the rounded sizes of the first l layers
RECURSIVE SumOfRegions(_)
SumOfRegions(l) == IF l = 0 THEN 0 ELSE SumOfRegions(l - 1) + RoundedOutputBytes(outDims[l])

\* the sub-region of layer l: that many bytes from the pointer it was given
Region(l) == regionStart[l]..(regionStart[l] + RoundedOutputBytes(outDims[l]) - 1)

\* C9: in one Propagate of a chain every layer stores only inside its own
\* sub-region, whose size is kSelfBufferSize = output_dimensions * 4 rounded up
\* to a cache-line multiple; the sub-regions are pairwise disjoint and lie
\* inside [0, kBufferSize) of the outermost layer, and kBufferSize of every
\* layer is its predecessor's kBufferSize plus its own kSelfBufferSize
C9_DisjointRegions ==
    regionStart # <<>> =>
        /\ \A l \in 1..Top :
              /\ kSelfBufferSize(outDims[l]) = RoundedOutputBytes(outDims[l])
              /\ kBufferSize(l) = SumOfRegions(l)
              /\ regionWrites[l] # {}
              /\ regionWrites[l] \subseteq Region(l)
              /\ Region(l) \subseteq 0..(kBufferSize(Top) - 1)
        /\ \A l \in 1..Top : \A m \in 1..Top : l # m => Region(l) \cap Region(m) = {}

\* a chain of three layers, the middle one with 32 outputs stored four at a
\* time, has been propagated
C9_Witness ==
    /\ regionStart # <<>>
    /\ Top = 3
    /\ outDims[2] = 32
    /\ kernel = "AVX2"
    /\ Cardinality(regionWrites[2]) = 128

\* C10 as stated: the region of every predecessor of a layer starts at a
\* smaller offset than the layer's own region
C10_AsStated ==
    regionStart # <<>> =>
        \A l \in 1..Top : \A m \in 1..(l - 1) : regionStart[m] < regionStart[l]

\* C10 amended: the region of the outermost layer starts at offset 0 and the
\* region of every predecessor of a layer starts at a larger offset than the
\* layer's own region
C10_PredecessorsAbove ==
    regionStart # <<>> =>
        /\ regionStart[Top] = 0
        /\ \A l \in 1..Top : \A m \in 1..(l - 1) : regionStart[m] > regionStart[l]

\* a chain of at least two layers has been propagated, so some layer has a
\* predecessor with a region in the buffer
C10_Witness ==
    /\ regionStart # <<>>
    /\ Top >= 2
    /\ regionStart[1] # regionStart[Top]

----------------------------------------------------------------------------
(* Propagate on layers of every output dimension (SpecShape) *)

\* largest output dimension of the layers
MaxShape == 8

\* a loaded layer of every output dimension from 1 up, in every build with
\* and without assert, and two calls about to run; nothing in the class
\* rejects an output dimension when the layer is built
InitShape ==
    /\ kernel \in Kernels
    /\ assertsOn \in BOOLEAN
    /\ \E O \in 1..MaxShape :
          /\ InitLayer(29, O, 2, FALSE)
          /\ InitCalls(29, O, 1, 127, TRUE)
    /\ InitLoaded
    /\ InitNoHash
    /\ InitNoChain

NextShape == \E c \in Calls : CallInOrder(c) /\ Propagate(c)

SpecShape == InitShape /\ [][NextShape]_vars

\* the widths a vector of the builds can be counted in: 32-bit output lanes of
\* a 128-bit register, and bytes of the 64-, 128-, 256- and 512-bit registers
VectorWidths == {4, 8, 16, 32, 64}

\* O is neither 1 nor a multiple of the vector width, whichever width is meant
IllegalShape(O) == O # 1 /\ \A v \in VectorWidths : O % v # 0

\* C11 as stated: a layer whose output_dimensions is neither 1 nor a multiple
\* of the vector width is never evaluated silently: no call of Propagate on
\* such a layer returns
C11_AsStated ==
    \A c \in Calls : pc[c] = "done" => ~IllegalShape(TopOut)

----------------------------------------------------------------------------
(* The 16-bit step of the multiply-add kernels (SpecProp) *)

\* the builds whose multiply-add step adds two byte products in 16 bits:
\* maddubs in SSSE3, AVX2 and AVX512 without VNNI, vmull_s8 / vmlal_s8 in NEON
SixteenBitKernels == {"SSSE3", "AVX2", "AVX512", "NEON"}

\* the column added in 16 bits to column j: its neighbour in the maddubs
\* builds, the column 8 further on in the NEON build (defined for the first
\* column of each pair)
PairedColumn(k, j) == IF k = "NEON" THEN j + 8 ELSE j + 1

\* the first columns of the pairs of a padded row
FirstOfPair(k) ==
    IF k = "NEON" THEN {j \in 0..(TopP - 1) : j % 16 < 8}
    ELSE {j \in 0..(TopP - 1) : j % 2 = 0}

\* the sum of the two products of a pair of row i, in the integers
PairSum(c, i, j) ==
    weights[Top][i * TopP + j] * input[c][j]
        + weights[Top][i * TopP + PairedColumn(kernel, j)] * input[c][PairedColumn(kernel, j)]

\* C12: when every input byte is in [0, 127], in the SSSE3, AVX2, AVX512
\* (non-VNNI) and NEON builds every 16-bit sum of two byte products of the
\* multiply-add step lies in [-32768, 32767], and every output the kernel
\* stores is the 32-bit sum of the bias and the products of the padded row
C12_NoSaturation ==
    \A c \in Calls :
        (pc[c] = "done" /\ kernel \in SixteenBitKernels /\ InputInRange(c)) =>
            \A i \in 0..(TopOut - 1) :
                /\ \A j \in FirstOfPair(kernel) :
                      PairSum(c, i, j) >= -32768 /\ PairSum(c, i, j) <= 32767
                /\ buffer[c][i] = AffineValue(c, i)

\* a maddubs build has evaluated a layer on an input of bytes 127 that is not
\* zero on the padding, with a pair of weights -128: the pair sum is at its
\* lowest, -32512
C12_Witness ==
    /\ pc[1] = "done"
    /\ kernel = "SSSE3"
    /\ InputInRange(1)
    /\ ~InputZeroPadded(1)
    /\ PairSum(1, 0, 0) = -32512
====
